---- MODULE Spec2Model ----
(***************************************************************************)
(* Streaming DMD (src/sDMD/sDMD.py): the rank-adaptive core sDMD_base, the *)
(* control adapter sDMDc and its multi-step predictor.                     *)
(*                                                                         *)
(* Arithmetic is exact integer arithmetic.  A matrix is a sequence of rows,*)
(* a vector a sequence of numbers.  The model follows the runs whose bases *)
(* are axis aligned (every column of Ux, Uy is +/- a coordinate vector):   *)
(* on these runs U.T @ x, the residual, the unit residual direction, the   *)
(* eigendecomposition of a diagonal moment matrix and its pseudoinverse    *)
(* are integers (or exact quotients), so every line of the code is         *)
(* computed, not abstracted.  An input that would leave this class (a      *)
(* residual with two non-zero coordinates, an eigendecomposition of a      *)
(* non-diagonal matrix) is not drawn.                                      *)
(*                                                                         *)
(* The statistics Q, Pinvx, Pinvy are stored as integer numerators over    *)
(* the common denominator sden, so that the forgetting factor rho = 1/2    *)
(* (halflife = 1) is exact as well.                                        *)
(***************************************************************************)
EXTENDS Integers, Sequences, FiniteSets, TLC

VARIABLES
    rmin, rmax, thres, rho,        \* configuration (sDMD_base.__init__)
    Ux, Uy,                        \* bases
    Q, Pinvx, Pinvy, sden,         \* statistics (numerators) and their denominator
    cfg,                           \* sDMDc: [s, f, nx, nu]
    heap,                          \* the Stacker and Delayer objects, by name
    pc,                            \* position inside predict_horizon, or "idle"
    ph,                            \* the frame of the last predict_horizon call
    ret,                           \* what the last call returned or raised
    call,                          \* the last update call: its inputs, the pre-call bases, and
                                   \* the instance as each of steps 2x, 2y and 3 found it
    nupd,                          \* number of completed updates
    hist,                          \* the completed updates, in order: inputs and statuses
    stats0,                        \* the statistics right after construction, and the batch
    stream                         \* sDMD: the raw samples received so far, in arrival order

coreVars == <<rmin, rmax, thres, rho, Ux, Uy, Q, Pinvx, Pinvy, sden>>
adapterVars == <<cfg, heap, pc, ph, stream>>
vars == <<rmin, rmax, thres, rho, Ux, Uy, Q, Pinvx, Pinvy, sden,
          cfg, heap, pc, ph, ret, call, nupd, hist, stats0, stream>>

----------------------------------------------------------------------------
(* Bounds *)
MaxUpdates == 2
MaxSteps == 2
MaxHist == 2
MaxU == 3
MaxFailed == 1

----------------------------------------------------------------------------
(* numpy on integer matrices *)

\* u[1] v[1] + ... + u[k] v[k]
RECURSIVE DotTo(_, _, _)
DotTo(u, v, k) == IF k = 0 THEN 0 ELSE u[k] * v[k] + DotTo(u, v, k - 1)
\* A[i][1] B[1][j] + ... + A[i][k] B[k][j]
RECURSIVE MulTo(_, _, _, _, _)
MulTo(A, B, i, j, k) ==
    IF k = 0 THEN 0 ELSE A[i][k] * B[k][j] + MulTo(A, B, i, j, k - 1)
\* U[1][j] x[1] + ... + U[k][j] x[k]
RECURSIVE TMulTo(_, _, _, _)
TMulTo(U, x, j, k) == IF k = 0 THEN 0 ELSE U[k][j] * x[k] + TMulTo(U, x, j, k - 1)

Rows(M) == Len(M)
Cols(M) == IF Len(M) = 0 THEN 0 ELSE Len(M[1])
Zeros(r, c) == [i \in 1..r |-> [j \in 1..c |-> 0]]
Col(M, j) == [i \in 1..Rows(M) |-> M[i][j]]
Dot(u, v) == DotTo(u, v, Len(u))
Norm2(v) == Dot(v, v)
Transpose(M) == [j \in 1..Cols(M) |-> Col(M, j)]
MatMul(A, B) ==
    [i \in 1..Rows(A) |-> [j \in 1..Cols(B) |-> MulTo(A, B, i, j, Cols(A))]]
TMatVec(U, x) == [j \in 1..Cols(U) |-> TMulTo(U, x, j, Rows(U))]
MatVec(U, t) == [i \in 1..Rows(U) |-> Dot(U[i], t)]
VecSub(u, v) == [i \in 1..Len(u) |-> u[i] - v[i]]
Outer(y, x) == [i \in 1..Len(y) |-> [j \in 1..Len(x) |-> y[i] * x[j]]]
MatAdd(A, B) == [i \in 1..Rows(A) |-> [j \in 1..Cols(A) |-> A[i][j] + B[i][j]]]
MatScale(k, A) == [i \in 1..Rows(A) |-> [j \in 1..Cols(A) |-> k * A[i][j]]]
HStack(A, B) == [i \in 1..Rows(A) |-> A[i] \o B[i]]
VStack(A, B) == A \o B
ColVec(v) == [i \in 1..Len(v) |-> <<v[i]>>]
Diag(d) == [i \in 1..Len(d) |-> [j \in 1..Len(d) |-> IF i = j THEN d[i] ELSE 0]]
IsDiagonal(P) == \A i \in 1..Rows(P) : \A j \in 1..Cols(P) : i # j => P[i][j] = 0
DiagOf(P) == [i \in 1..Rows(P) |-> P[i][i]]
Sgn(a) == IF a > 0 THEN 1 ELSE IF a < 0 THEN -1 ELSE 0
Min(a, b) == IF a <= b THEN a ELSE b
Perms(n) == {p \in [1..n -> 1..n] : \A i, j \in 1..n : p[i] = p[j] => i = j}
\* np.argsort(-d): every order that sorts d descending (the order of ties is
\* whatever the sort produces)
ArgsortDesc(d) ==
    {p \in Perms(Len(d)) : \A i \in 1..(Len(d) - 1) : d[p[i]] >= d[p[i + 1]]}
\* M[:, idx]
TakeCols(M, idx) == [i \in 1..Rows(M) |-> [j \in 1..Len(idx) |-> M[i][idx[j]]]]
\* s[:k]
Prefix(s, k) == SubSeq(s, 1, Min(k, Len(s)))

----------------------------------------------------------------------------
(* Status (enum) *)
NONE == "NONE"
AUGMENTATION == "AUGMENTATION"
REDUCTION == "REDUCTION"

----------------------------------------------------------------------------
(* truncatedSVD, on a matrix X whose rows are mutually orthogonal: X X^T is  *)
(* diagonal, the left singular vectors are coordinate vectors ordered by    *)
(* descending singular value, each up to sign.  p is the order np.linalg.svd*)
(* returns (any order of ties), sg the signs.                               *)

RowNorms(X) == [i \in 1..Rows(X) |-> Norm2(X[i])]
RowOrthogonal(X) == \A i, j \in 1..Rows(X) : i # j => Dot(X[i], X[j]) = 0
\* U of np.linalg.svd(X, full_matrices=False): n x min(n, m)
SvdU(X, p, sg) ==
    [i \in 1..Rows(X) |->
        [j \in 1..Min(Rows(X), Cols(X)) |-> IF i = p[j] THEN sg[j] ELSE 0]]
\* the rank truncatedSVD keeps; "unbound" when no branch assigns it
TruncRank(r, avail) == IF r >= 1 THEN Min(r, avail) ELSE "unbound"
\* U_r = U[:, :rank]
truncatedSVD(X, r, p, sg) ==
    LET U == SvdU(X, p, sg)
        rank == TruncRank(r, Cols(U))
    IN  TakeCols(U, [j \in 1..rank |-> j])
SvdOrders(X) == ArgsortDesc(RowNorms(X))
\* the sign of a singular vector is the library's choice; the two uniform
\* choices are drawn
SvdSigns(X) == {[j \in 1..Min(Rows(X), Cols(X)) |-> sg] : sg \in {1, -1}}

----------------------------------------------------------------------------
(* sDMD_base.__init__ *)

\* rho = 1 if halflife is None else 2 ** (-1 / halflife); halflife is <<>> for
\* None and <<1>> for 1, which gives 1/2
RhoOf(halflife) ==
    IF halflife = <<>> THEN [num |-> 1, den |-> 1] ELSE [num |-> 1, den |-> 2]

Construct(X, Y, r, px, sgx, py, sgy) ==
    LET ux == truncatedSVD(X, r, px, sgx)
        uy == truncatedSVD(Y, r, py, sgy)
        X_tild == MatMul(Transpose(ux), X)
        Y_tild == MatMul(Transpose(uy), Y)
    IN  [Ux |-> ux, Uy |-> uy,
         Q |-> MatMul(Y_tild, Transpose(X_tild)),
         Pinvx |-> MatMul(X_tild, Transpose(X_tild)),
         Pinvy |-> MatMul(Y_tild, Transpose(Y_tild))]

----------------------------------------------------------------------------
(* sDMD_base.update, step by step, on the record m of the five matrices *)

\* ex = x - Ux @ (Ux.T @ x)
Residual(U, x) == VecSub(x, MatVec(U, TMatVec(U, x)))
\* np.linalg.norm(ex) / normx > thres, compared on the squares; 0/0 is nan
\* and compares False
ExceedsThres(e, x, th) ==
    /\ Norm2(x) # 0
    /\ th.den * th.den * Norm2(e) > th.num * th.num * Norm2(x)
\* ex / norm(ex), for a residual along one coordinate axis
SingleAxis(e) == Cardinality({i \in 1..Len(e) : e[i] # 0}) = 1
UnitOf(e) == [i \in 1..Len(e) |-> Sgn(e[i])]

\* AugmentX without the new zero column of Q
AugmentX_NoQPad(m, ex) ==
    LET P1 == HStack(m.Pinvx, Zeros(Rows(m.Pinvx), 1))
    IN  [m EXCEPT !.Ux = HStack(m.Ux, ColVec(UnitOf(ex))),
                  !.Pinvx = VStack(P1, Zeros(1, Cols(P1))),
                  !.x_status = AUGMENTATION]

\* Table 1: rank augmentation of Ux
AugmentX(m, ex) ==
    LET P1 == HStack(m.Pinvx, Zeros(Rows(m.Pinvx), 1))
    IN  [m EXCEPT !.Ux = HStack(m.Ux, ColVec(UnitOf(ex))),
                  !.Pinvx = VStack(P1, Zeros(1, Cols(P1))),
                  !.Q = HStack(m.Q, Zeros(Rows(m.Q), 1)),
                  !.x_status = AUGMENTATION]

\* AugmentY that enters the energy of the residual on the new diagonal entry
AugmentY_Seeded(m, ey) ==
    LET P1 == HStack(m.Pinvy, Zeros(Rows(m.Pinvy), 1))
        k == Cols(P1)
    IN  [m EXCEPT !.Uy = HStack(m.Uy, ColVec(UnitOf(ey))),
                  !.Pinvy = VStack(P1, <<[j \in 1..k |-> IF j = k THEN Norm2(ey) ELSE 0]>>),
                  !.Q = VStack(m.Q, Zeros(1, Cols(m.Q))),
                  !.y_status = AUGMENTATION]

\* Table 1: rank augmentation of Uy
AugmentY(m, ey) ==
    LET P1 == HStack(m.Pinvy, Zeros(Rows(m.Pinvy), 1))
    IN  [m EXCEPT !.Uy = HStack(m.Uy, ColVec(UnitOf(ey))),
                  !.Pinvy = VStack(P1, Zeros(1, Cols(P1))),
                  !.Q = VStack(m.Q, Zeros(1, Cols(m.Q))),
                  !.y_status = AUGMENTATION]

\* np.linalg.eig of a diagonal matrix: the diagonal, and the identity
EigVal(P) == DiagOf(P)
EigVec(P) == Diag([i \in 1..Rows(P) |-> 1])

\* ReduceX that leaves the AUGMENTATION mark in place
ReduceX_NoStatus(m, r, indx) ==
    LET eigval == [i \in 1..Len(indx) |-> DiagOf(m.Pinvx)[indx[i]]]
        qx == TakeCols(Diag([i \in 1..Rows(m.Pinvx) |-> 1]), Prefix(indx, r))
    IN  [m EXCEPT !.Ux = MatMul(m.Ux, qx),
                  !.Q = MatMul(m.Q, qx),
                  !.Pinvx = Diag(Prefix(eigval, r))]

\* Table 1: rank reduction of Ux; indx = np.argsort(-eigval)
ReduceX(m, r, indx) ==
    LET eigval == [i \in 1..Len(indx) |-> EigVal(m.Pinvx)[indx[i]]]
        qx == TakeCols(EigVec(m.Pinvx), Prefix(indx, r))
    IN  [m EXCEPT !.Ux = MatMul(m.Ux, qx),
                  !.Q = MatMul(m.Q, qx),
                  !.Pinvx = Diag(Prefix(eigval, r)),
                  !.x_status = REDUCTION]

\* Table 1: rank reduction of Uy; eigval = -np.sort(-eigval)
ReduceY(m, r, indx) ==
    LET eigval == [i \in 1..Len(indx) |-> EigVal(m.Pinvy)[indx[i]]]
        qy == TakeCols(EigVec(m.Pinvy), Prefix(indx, r))
    IN  [m EXCEPT !.Uy = MatMul(m.Uy, qy),
                  !.Q = MatMul(Transpose(qy), m.Q),
                  !.Pinvy = Diag(Prefix(eigval, r)),
                  !.y_status = REDUCTION]

\* Regress with xtilde * xtilde (elementwise, broadcast) for xtilde @ xtilde.T
Regress_Elementwise(m, x, y, rh, d) ==
    LET xtilde == TMatVec(m.Ux, x)
        ytilde == TMatVec(m.Uy, y)
        k == rh.den * d
        sq == [i \in 1..Len(xtilde) |-> [j \in 1..Len(xtilde) |-> xtilde[i] * xtilde[i]]]
    IN  [m EXCEPT !.Q = MatAdd(MatScale(rh.num, m.Q), MatScale(k, Outer(ytilde, xtilde))),
                  !.Pinvx = MatAdd(MatScale(rh.num, m.Pinvx), MatScale(k, sq)),
                  !.Pinvy = MatAdd(MatScale(rh.num, m.Pinvy), MatScale(k, Outer(ytilde, ytilde)))]

\* Eq. (10)-(12): Q = rho Q + ytilde xtilde^T, ..., on numerators over the
\* denominator d (which becomes rho.den * d)
Regress(m, x, y, rh, d) ==
    LET xtilde == TMatVec(m.Ux, x)
        ytilde == TMatVec(m.Uy, y)
        k == rh.den * d
    IN  [m EXCEPT !.Q = MatAdd(MatScale(rh.num, m.Q), MatScale(k, Outer(ytilde, xtilde))),
                  !.Pinvx = MatAdd(MatScale(rh.num, m.Pinvx), MatScale(k, Outer(xtilde, xtilde))),
                  !.Pinvy = MatAdd(MatScale(rh.num, m.Pinvy), MatScale(k, Outer(ytilde, ytilde)))]

\* STEP 1 - basis expansion, against the pre-step bases
ExpandX(m, x, th) ==
    IF ExceedsThres(Residual(m.Ux, x), x, th) THEN AugmentX(m, Residual(m.Ux, x)) ELSE m
ExpandY(m, y, th) ==
    IF ExceedsThres(Residual(m.Uy, y), y, th) THEN AugmentY(m, Residual(m.Uy, y)) ELSE m
\* STEP 2 - POD compression
\* the x-side test off by one, and the y-side test with >= for >
NeedsReduceX_OffByOne(m, rx) == Cols(m.Ux) > rx + 1
NeedsReduceY_AtLeast(m, rx) == Cols(m.Uy) >= rx
NeedsReduceX(m, rx) == Cols(m.Ux) > rx
NeedsReduceY(m, rx) == Cols(m.Uy) > rx
CompressX(m, r, rx, indx) == IF NeedsReduceX(m, rx) THEN ReduceX(m, r, indx) ELSE m
CompressY(m, r, rx, indx) == IF NeedsReduceY(m, rx) THEN ReduceY(m, r, indx) ELSE m
\* the orders argsort may return in step 2 (<<>> when eig is not called)
OrdersX(m, rx) == IF NeedsReduceX(m, rx) THEN ArgsortDesc(EigVal(m.Pinvx)) ELSE {<<>>}
OrdersY(m, rx) == IF NeedsReduceY(m, rx) THEN ArgsortDesc(EigVal(m.Pinvy)) ELSE {<<>>}

\* the inputs on which every step is exact in this arithmetic (m2 is the
\* instance after step 1)
Exact(m, m2, x, y, th, rx) ==
    /\ ExceedsThres(Residual(m.Ux, x), x, th) => SingleAxis(Residual(m.Ux, x))
    /\ ExceedsThres(Residual(m.Uy, y), y, th) => SingleAxis(Residual(m.Uy, y))
    /\ NeedsReduceX(m2, rx) => IsDiagonal(m2.Pinvx)
    /\ NeedsReduceY(m2, rx) => IsDiagonal(m2.Pinvy)

\* the instance as a record, statuses initialised as in lines 127-128
Self == [Ux |-> Ux, Uy |-> Uy, Q |-> Q, Pinvx |-> Pinvx, Pinvy |-> Pinvy,
         x_status |-> NONE, y_status |-> NONE]

----------------------------------------------------------------------------
(* The streaming core driven directly: sDMD_base(X, Y, rmin, rmax, ...)     *)
(* followed by update(x, y) calls.  x has 3 rows, y has 2.                  *)

InitBatches ==
    { [X |-> <<<<1>>, <<0>>, <<0>>>>,             Y |-> <<<<1>>, <<0>>>>],
      [X |-> <<<<2, 0>>, <<0, 1>>, <<0, 0>>>>,    Y |-> <<<<2, 0>>, <<0, 1>>>>],
      [X |-> <<<<3, 0, 0>>, <<0, 2, 0>>, <<0, 0, 1>>>>,
       Y |-> <<<<2, 0, 1>>, <<1, 0, -2>>>>] }
\* <<rmin, rmax>>
RankPairs == {<<1, 1>>, <<1, 2>>, <<2, 2>>}
\* thres = 0.2, the default
ThresChoices == {[num |-> 1, den |-> 5]}
\* halflife = None and halflife = 1
RhoChoices == {RhoOf(<<>>), RhoOf(<<1>>)}
XSamples == {<<0, 0, 0>>, <<0, 1, 0>>, <<0, 0, 2>>, <<5, 1, 0>>}
YSamples == {<<0, 0>>, <<0, -1>>, <<1, 5>>}

\* what a call hands back: a value, or an exception
Return(op, v) == [op |-> op, kind |-> "return", value |-> v]
Raise(op, e) == [op |-> op, kind |-> "raise", value |-> e]

\* the state after sDMD_base.__init__(X, Y, r, ...) with the SVD outcome
\* (px, sgx, py, sgy); X and Y need the same number of columns for
\* Y_tild @ X_tild.T
BaseInit(X, Y, rr, th, rh, px, sgx, py, sgy) ==
    LET m == Construct(X, Y, rr[1], px, sgx, py, sgy)
    IN  /\ RowOrthogonal(X) /\ RowOrthogonal(Y)
        /\ Cols(X) = Cols(Y)
        /\ rmin = rr[1] /\ rmax = rr[2] /\ thres = th /\ rho = rh
        /\ Ux = m.Ux /\ Uy = m.Uy
        /\ Q = m.Q /\ Pinvx = m.Pinvx /\ Pinvy = m.Pinvy /\ sden = 1
        /\ ret = Return("__init__", <<>>)
        /\ call = <<>>
        /\ nupd = 0
        /\ hist = <<>>
        /\ stats0 = [Q |-> m.Q, Pinvx |-> m.Pinvx, Pinvy |-> m.Pinvy,
                     X |-> X, Y |-> Y]

\* sDMD_base.update(x, y) on an instance whose bases have the rows of x, y
BaseUpdate(x, y) ==
    /\ nupd < MaxUpdates
    /\ Len(x) = Rows(Ux) /\ Len(y) = Rows(Uy)
    /\ \E m1 \in {ExpandX(Self, x, thres)} :
       \E m2 \in {ExpandY(m1, y, thres)} :
        /\ Exact(Self, m2, x, y, thres, rmax)
        /\ \E ix \in OrdersX(m2, rmax) :
           \E m3 \in {CompressX(m2, rmin, rmax, ix)} :
           \E iy \in OrdersY(m3, rmax) :
           \E m4 \in {CompressY(m3, rmin, rmax, iy)} :
           \E m \in {Regress(m4, x, y, rho, sden)} :
                /\ Ux' = m.Ux /\ Uy' = m.Uy
                /\ Q' = m.Q /\ Pinvx' = m.Pinvx /\ Pinvy' = m.Pinvy
                /\ sden' = rho.den * sden
                /\ ret' = Return("update", <<m.x_status, m.y_status>>)
                /\ hist' = Append(hist, [x |-> x, y |-> y, x_status |-> m.x_status,
                                         y_status |-> m.y_status])
                /\ call' = [x |-> x, y |-> y, Ux |-> Ux, Uy |-> Uy,
                            steps |-> [compress_x |-> m2, compress_y |-> m3,
                                       regress |-> m4]]
    /\ nupd' = nupd + 1
    /\ UNCHANGED <<rmin, rmax, thres, rho, stats0>>

Init ==
    \E b \in InitBatches, rr \in RankPairs, th \in ThresChoices, rh \in RhoChoices :
    \E px \in SvdOrders(b.X), py \in SvdOrders(b.Y) :
    \E sgx \in SvdSigns(b.X), sgy \in SvdSigns(b.Y) :
        /\ BaseInit(b.X, b.Y, rr, th, rh, px, sgx, py, sgy)
        /\ cfg = <<>> /\ heap = <<>> /\ pc = "idle" /\ ph = <<>> /\ stream = <<>>

update(x, y) == BaseUpdate(x, y) /\ UNCHANGED adapterVars

Next == \E x \in XSamples, y \in YSamples : update(x, y)

Spec == Init /\ [][Next]_vars

----------------------------------------------------------------------------
(* Column vectors that may hold nan: v are the entries (0 where nan), nan   *)
(* says whether any entry is nan.  A product with a vector holding a nan    *)
(* is nan in every entry.                                                   *)

None == <<>>
Vec(v) == [v |-> v, nan |-> FALSE]
\* np.full((n, 1), np.nan)
NaNVec(n) == [v |-> [i \in 1..n |-> 0], nan |-> TRUE]
ZeroVec(n) == Vec([i \in 1..n |-> 0])
VLen(a) == Len(a.v)
\* np.vstack([a, b])
VConcat(a, b) == [v |-> a.v \o b.v, nan |-> a.nan \/ b.nan]
RECURSIVE VConcatAll(_)
VConcatAll(vs) ==
    IF Len(vs) = 0 THEN Vec(<<>>) ELSE VConcat(vs[1], VConcatAll(Tail(vs)))
\* a matrix given by its columns, as rows
RowsOf(cols, n) == [i \in 1..n |-> [j \in 1..Len(cols) |-> cols[j].v[i]]]
\* the columns of a matrix
ColsOf(M) == [j \in 1..Cols(M) |-> Vec(Col(M, j))]

----------------------------------------------------------------------------
(* The delay-buffer collaborators (utilities.Stacker, utilities.Delayer).   *)
(* buf holds the most recent samples, newest first, zero before any sample. *)

\* Stacker(dim, depth): the last depth samples stacked, newest block first
Stacker(dim, depth) ==
    [dim |-> dim, depth |-> depth, buf |-> [k \in 1..depth |-> ZeroVec(dim)]]
StackerPush(b, x) == [b EXCEPT !.buf = <<x>> \o SubSeq(b.buf, 1, b.depth - 1)]
StackerPeek(b) == VConcatAll(b.buf)

\* Delayer(dim, delay): the sample from delay updates back
Delayer(dim, delay) ==
    [dim |-> dim, delay |-> delay, buf |-> [k \in 1..(delay + 1) |-> ZeroVec(dim)]]
DelayerPush(b, x) == [b EXCEPT !.buf = <<x>> \o SubSeq(b.buf, 1, b.delay)]
DelayerPeek(b) == b.buf[b.delay + 1]

\* [obj.update(c) for c in cols]: the object after, and the values returned
RECURSIVE StackerFeed(_, _, _)
StackerFeed(b, cols, k) ==
    IF k = 0 THEN [obj |-> b, out |-> <<>>]
    ELSE LET r == StackerFeed(b, cols, k - 1)
             b1 == StackerPush(r.obj, cols[k])
         IN  [obj |-> b1, out |-> Append(r.out, StackerPeek(b1))]
RECURSIVE DelayerFeed(_, _, _)
DelayerFeed(b, cols, k) ==
    IF k = 0 THEN [obj |-> b, out |-> <<>>]
    ELSE LET r == DelayerFeed(b, cols, k - 1)
             b1 == DelayerPush(r.obj, cols[k])
         IN  [obj |-> b1, out |-> Append(r.out, DelayerPeek(b1))]

----------------------------------------------------------------------------
(* sDMDc: x_k+1 = A x_k + B u_k *)

\* the objects of the heap: the three of the instance, and the locals of
\* predict_horizon (None while no call is running)
Xstack0 == "Xstack0"
Xstack1 == "Xstack1"
Ustack == "Ustack"
\* a temporary buffer that is the live one
pred_Xstack0_Alias == "Xstack0"
pred_Xstack0 == "pred_Xstack0"
pred_Xstack1 == "pred_Xstack1"
pred_Ustack == "pred_Ustack"
temp_s0_for_priming == "temp_s0_for_priming"
LiveNames == {"Xstack0", "Xstack1", "Ustack"}
LocalNames == {"pred_Xstack0", "pred_Xstack1", "pred_Ustack", "temp_s0_for_priming"}
Live(h) == [n \in LiveNames |-> h[n]]

\* M[:, k:]
DropCols(cols, k) == SubSeq(cols, k + 1, Len(cols))

\* sDMDc.__init__ up to the call of super().__init__: the buffers after the
\* batch went through them, and the training pair XU_hank, Y_hank
CtrlBatch(X, U, s, f) ==
    LET nxv == Rows(X)
        nuv == Rows(U)
        r0 == StackerFeed(Stacker(nxv, s), ColsOf(X), Cols(X))
        r1 == DelayerFeed(Delayer(nxv * s, f), r0.out, Len(r0.out))
        r2 == DelayerFeed(Delayer(nuv, f), ColsOf(U), Cols(U))
        XU == [t \in 1..Len(r1.out) |-> VConcat(r1.out[t], r2.out[t])]
    IN  [Xstack0 |-> r0.obj, Xstack1 |-> r1.obj, Ustack |-> r2.obj,
         Y_hank |-> RowsOf(DropCols(r0.out, s + f), nxv * s),
         XU_hank |-> RowsOf(DropCols(XU, s + f), nxv * s + nuv)]

\* the training batches: x_k+1 = 2 x_k with one state and one control
CtrlBatches ==
    { [X |-> <<<<1, 2, 4, 8>>>>,     U |-> <<<<1, 2, -1, 0>>>>,    s |-> 1, f |-> 1],
      [X |-> <<<<1, 2, 4, 8, 16>>>>, U |-> <<<<1, 2, -1, 0, 0>>>>, s |-> 1, f |-> 2],
      [X |-> <<<<1, 0, 2, 0>>>>,     U |-> <<<<0, 0, 0, 0>>>>,     s |-> 2, f |-> 1] }
\* the live samples (x_in, u_in) drawn for sDMDc.update
CtrlSamples == {<<<<3>>, <<1>>>>, <<<<0>>, <<0>>>>, <<<<3>>, <<0>>>>}

InitC ==
    \E b \in CtrlBatches, rr \in RankPairs, th \in ThresChoices :
    \E cb \in {CtrlBatch(b.X, b.U, b.s, b.f)} :
    \E px \in SvdOrders(cb.XU_hank), py \in SvdOrders(cb.Y_hank) :
    \E sgx \in SvdSigns(cb.XU_hank), sgy \in SvdSigns(cb.Y_hank) :
        /\ Cols(b.X) = Cols(b.U)
        /\ BaseInit(cb.XU_hank, cb.Y_hank, rr, th, RhoOf(<<>>), px, sgx, py, sgy)
        /\ cfg = [s |-> b.s, f |-> b.f, nx |-> Rows(b.X), nu |-> Rows(b.U)]
        /\ heap = [n \in LiveNames \cup LocalNames |->
                     IF n = Xstack0 THEN cb.Xstack0
                     ELSE IF n = Xstack1 THEN cb.Xstack1
                     ELSE IF n = Ustack THEN cb.Ustack
                     ELSE None]
        /\ pc = "idle"
        /\ ph = <<>>
        /\ stream = <<>>

\* sDMDc.update(x_in, u_in)
sDMDc_update(x_in, u_in) ==
    /\ pc = "idle"
    /\ \E b0 \in {StackerPush(heap[Xstack0], Vec(x_in))} :
       \E b1 \in {DelayerPush(heap[Xstack1], StackerPeek(b0))} :
       \E b2 \in {DelayerPush(heap[Ustack], Vec(u_in))} :
        LET yhank == StackerPeek(b0)
            xhank == DelayerPeek(b1)
            udel == DelayerPeek(b2)
            xnew == VConcat(xhank, udel)
        IN  /\ BaseUpdate(xnew.v, yhank.v)
            /\ heap' = [heap EXCEPT ![Xstack0] = b0, ![Xstack1] = b1, ![Ustack] = b2]
    /\ ph' = <<>>
    /\ UNCHANGED <<cfg, pc, stream>>

\* sDMD_base.A = Q @ pinv(Pinvx), for a diagonal Pinvx whose non-zero
\* entries divide the entries of Q in their column: pinv inverts the
\* non-zero diagonal entries and keeps the zeros
AIntegral(Qm, Pm) ==
    /\ IsDiagonal(Pm)
    /\ \A i \in 1..Rows(Qm) : \A j \in 1..Cols(Qm) :
          Pm[j][j] # 0 => Qm[i][j] % Pm[j][j] = 0
A(Qm, Pm) ==
    [i \in 1..Rows(Qm) |->
        [j \in 1..Cols(Qm) |-> IF Pm[j][j] = 0 THEN 0 ELSE Qm[i][j] \div Pm[j][j]]]

\* sDMDc.get_current_augmented_input_for_prediction
CurrentAugmentedInput(h) == VConcat(DelayerPeek(h[Xstack1]), DelayerPeek(h[Ustack]))

\* sDMDc.predict_next_raw_state_from_augmented on an instance with the
\* attributes Qm, Pm, Uxm, Uym (None when missing)
PredictNext(Qm, Pm, Uxm, Uym, nxv, aug) ==
    IF Qm = None \/ Pm = None
    THEN Raise("predict_next", "TypeError")      \* self.A cannot be evaluated
    ELSE IF Uxm = None \/ Uym = None
    THEN Return("predict_next", NaNVec(nxv))
    ELSE IF VLen(aug) # Rows(Uxm)
    THEN Return("predict_next", NaNVec(nxv))
    ELSE LET y_reduced_pred == MatVec(A(Qm, Pm), TMatVec(Uxm, aug.v))
             y_hank_physical_pred == MatVec(Uym, y_reduced_pred)
             predicted_x_next_raw == Prefix(y_hank_physical_pred, nxv)
         IN  Return("predict_next",
                    IF aug.nan THEN NaNVec(Len(predicted_x_next_raw))
                    ELSE Vec(predicted_x_next_raw))

\* the last k entries of a sequence
LastK(q, k) == SubSeq(q, Len(q) - k + 1, Len(q))
DropLocals(h) == [n \in DOMAIN h |-> IF n \in LocalNames THEN None ELSE h[n]]
\* a matrix argument: its row count and its columns
Matrix(nrows, cols) == [nrows |-> nrows, cols |-> cols]

\* predict_horizon, lines 475-491: the validation
PH_Call(xh, uf, steps) ==
    /\ pc = "idle"
    /\ AIntegral(Q, Pinvx)
    /\ LET required_x_hist_len == cfg.s + cfg.f - 1
           required_u_len == steps + cfg.f - 1
           frame == [x_hist |-> xh, u_future |-> uf, steps |-> steps, i |-> 0,
                     cur |-> None, predicted |-> <<>>, all |-> <<>>]
       IN  /\ ph' = frame
           /\ IF xh.nrows # cfg.nx \/ Len(xh.cols) < required_x_hist_len
              THEN ret' = Raise("predict_horizon", "ValueError") /\ pc' = "idle"
              ELSE IF uf.nrows # cfg.nu \/ Len(uf.cols) < required_u_len
              THEN ret' = Raise("predict_horizon", "ValueError") /\ pc' = "idle"
              ELSE ret' = [op |-> "predict_horizon", kind |-> "running", value |-> <<>>]
                   /\ pc' = "prime"
    /\ UNCHANGED <<coreVars, cfg, heap, call, nupd, hist, stats0, stream>>

\* lines 493-515: the temporary buffers, primed from the history
PH_Prime ==
    /\ pc = "prime"
    /\ LET required_x_hist_len == cfg.s + cfg.f - 1
           xc == ph.x_hist.cols
           uc == ph.u_future.cols
           r0 == StackerFeed(Stacker(cfg.nx, cfg.s), LastK(xc, cfg.s), cfg.s)
           rt == StackerFeed(Stacker(cfg.nx, cfg.s), xc, required_x_hist_len)
           temp_hist == DropCols(rt.out, cfg.s - 1)
           r1 == DelayerFeed(Delayer(cfg.nx * cfg.s, cfg.f), LastK(temp_hist, cfg.f), cfg.f)
           r2 == DelayerFeed(Delayer(cfg.nu, cfg.f), uc, cfg.f)
       IN  /\ heap' = [heap EXCEPT ![pred_Xstack0] = r0.obj,
                                   ![temp_s0_for_priming] = rt.obj,
                                   ![pred_Xstack1] = r1.obj,
                                   ![pred_Ustack] = r2.obj]
           /\ ph' = [ph EXCEPT !.predicted = [k \in 1..ph.steps |-> ZeroVec(cfg.nx)],
                               !.cur = xc[Len(xc)]]
    /\ pc' = "loop"
    /\ UNCHANGED <<coreVars, cfg, ret, call, nupd, hist, stats0, stream>>

\* a prefix that keeps the column of the nan step
NaNPrefix_Inclusive(predicted, i) == SubSeq(predicted, 1, i + 1)
\* predicted_X_raw_horizon[:, :i]
NaNPrefix(predicted, i) == SubSeq(predicted, 1, i)

\* lines 518-534: one iteration of the prediction loop
PH_Iter ==
    /\ pc = "loop"
    /\ ph.i < ph.steps
    /\ IF cfg.f + ph.i + 1 > Len(ph.u_future.cols)
       THEN \* u_future_raw_sequence[:, self.f + i] is out of bounds
            /\ ret' = Raise("predict_horizon", "IndexError")
            /\ pc' = "idle"
            /\ heap' = DropLocals(heap)
            /\ ph' = ph
       ELSE \E b0 \in {StackerPush(heap[pred_Xstack0], ph.cur)} :
            \E b1 \in {DelayerPush(heap[pred_Xstack1], StackerPeek(b0))} :
            \E b2 \in {DelayerPush(heap[pred_Ustack], ph.u_future.cols[cfg.f + ph.i + 1])} :
            \E h1 \in {[heap EXCEPT ![pred_Xstack0] = b0, ![pred_Xstack1] = b1,
                                    ![pred_Ustack] = b2]} :
            \E next_x_raw_pred \in
                 {PredictNext(Q, Pinvx, Ux, Uy, cfg.nx,
                              VConcat(DelayerPeek(b1), DelayerPeek(b2))).value} :
                IF next_x_raw_pred.nan
                THEN /\ ret' = Return("predict_horizon", NaNPrefix(ph.predicted, ph.i))
                     /\ pc' = "idle"
                     /\ heap' = DropLocals(h1)
                     /\ ph' = [ph EXCEPT !.all = Append(ph.all, next_x_raw_pred)]
                ELSE /\ ret' = ret
                     /\ pc' = "loop"
                     /\ heap' = h1
                     /\ ph' = [ph EXCEPT !.all = Append(ph.all, next_x_raw_pred),
                                         !.predicted[ph.i + 1] = next_x_raw_pred,
                                         !.cur = next_x_raw_pred,
                                         !.i = ph.i + 1]
    /\ UNCHANGED <<coreVars, cfg, call, nupd, hist, stats0, stream>>

\* line 536
PH_Return ==
    /\ pc = "loop"
    /\ ph.i = ph.steps
    /\ ret' = Return("predict_horizon", ph.predicted)
    /\ pc' = "idle"
    /\ heap' = DropLocals(heap)
    /\ UNCHANGED <<coreVars, cfg, ph, call, nupd, hist, stats0, stream>>

\* the read-only single calls
get_current_augmented_input_for_prediction ==
    /\ pc = "idle"
    /\ ret' = Return("get_current_augmented_input", CurrentAugmentedInput(heap))
    /\ ph' = <<>>
    /\ UNCHANGED <<coreVars, cfg, heap, pc, call, nupd, hist, stats0, stream>>

predict_next_raw_state_from_augmented(aug) ==
    /\ pc = "idle"
    /\ IF Q = None \/ Pinvx = None THEN TRUE ELSE AIntegral(Q, Pinvx)
    /\ ret' = PredictNext(Q, Pinvx, Ux, Uy, cfg.nx, aug)
    /\ ph' = <<>>
    /\ UNCHANGED <<coreVars, cfg, heap, pc, call, nupd, hist, stats0, stream>>

\* the arguments drawn for predict_horizon: histories ending in x_0 = 1, and
\* control sequences with at most one nan column; one of each with a row too
\* many
HistCols(h) == [j \in 1..h |-> Vec(<<2 * (h - j) + 1>>)]
XHists ==
    {Matrix(1, HistCols(h)) : h \in 0..MaxHist} \cup {Matrix(2, <<Vec(<<1, 1>>)>>)}
UCols(k, n) == [j \in 1..k |-> IF j = n THEN NaNVec(1) ELSE Vec(<<1>>)]
UFutures ==
    {Matrix(1, UCols(k, 0)) : k \in 0..MaxU} \cup {Matrix(1, UCols(MaxU, n)) : n \in 1..MaxU}
        \cup {Matrix(2, <<Vec(<<1, 1>>)>>)}
AugInputs == {Vec(<<1, 0>>), Vec(<<0, 1>>), Vec(<<1>>), Vec(<<1, 0, 0>>), NaNVec(2)}

NextC ==
    \/ \E xu \in CtrlSamples : sDMDc_update(xu[1], xu[2])
    \/ \E xh \in XHists, uf \in UFutures, steps \in 1..MaxSteps : PH_Call(xh, uf, steps)
    \/ PH_Prime
    \/ PH_Iter
    \/ PH_Return
    \/ get_current_augmented_input_for_prediction
    \/ \E aug \in AugInputs : predict_next_raw_state_from_augmented(aug)

SpecC == InitC /\ [][NextC]_vars

\* Instances for the single-step predictor: a constructed sDMDc on which any
\* of Q, Pinvx, Ux, Uy may be None
Attrs == {"Q", "Pinvx", "Ux", "Uy"}
InitPN ==
    \E b \in CtrlBatches, rr \in RankPairs, th \in ThresChoices, missing \in SUBSET Attrs :
    \E cb \in {CtrlBatch(b.X, b.U, b.s, b.f)} :
    \E px \in SvdOrders(cb.XU_hank), py \in SvdOrders(cb.Y_hank) :
    \E sgx \in SvdSigns(cb.XU_hank), sgy \in SvdSigns(cb.Y_hank) :
    \E m \in {Construct(cb.XU_hank, cb.Y_hank, rr[1], px, sgx, py, sgy)} :
        /\ RowOrthogonal(cb.XU_hank) /\ RowOrthogonal(cb.Y_hank)
        /\ rmin = rr[1] /\ rmax = rr[2] /\ thres = th /\ rho = RhoOf(<<>>)
        /\ Ux = IF "Ux" \in missing THEN None ELSE m.Ux
        /\ Uy = IF "Uy" \in missing THEN None ELSE m.Uy
        /\ Q = IF "Q" \in missing THEN None ELSE m.Q
        /\ Pinvx = IF "Pinvx" \in missing THEN None ELSE m.Pinvx
        /\ Pinvy = m.Pinvy /\ sden = 1
        /\ ret = Return("__init__", <<>>)
        /\ call = <<>> /\ nupd = 0 /\ hist = <<>>
        /\ stats0 = [Q |-> m.Q, Pinvx |-> m.Pinvx, Pinvy |-> m.Pinvy,
                     X |-> cb.XU_hank, Y |-> cb.Y_hank]
        /\ cfg = [s |-> b.s, f |-> b.f, nx |-> Rows(b.X), nu |-> Rows(b.U)]
        /\ heap = [n \in LiveNames \cup LocalNames |->
                     IF n = Xstack0 THEN cb.Xstack0
                     ELSE IF n = Xstack1 THEN cb.Xstack1
                     ELSE IF n = Ustack THEN cb.Ustack
                     ELSE None]
        /\ pc = "idle"
        /\ ph = <<>>
        /\ stream = <<>>

NextPN == \E aug \in AugInputs : predict_next_raw_state_from_augmented(aug)

SpecPN == InitPN /\ [][NextPN]_vars

----------------------------------------------------------------------------
(* truncatedSVD as a function of its arguments *)

\* S of np.linalg.svd: the singular values in descending order, kept squared
SvdS2(X, p) == [j \in 1..Min(Rows(X), Cols(X)) |-> Norm2(X[p[j]])]
\* V of np.linalg.svd after V.conj().T, m x min(n, m), kept unnormalised:
\* column j is X.T @ U[:, j] = s_j * v_j
SvdVS(X, p, sg) ==
    [i \in 1..Cols(X) |->
        [j \in 1..Min(Rows(X), Cols(X)) |-> sg[j] * X[p[j]][i]]]
\* lines 70-83: the three factors cut to rank, or the failure of line 79 when
\* neither branch has bound rank
truncatedSVD_result(X, r, p, sg) ==
    LET U == SvdU(X, p, sg)
        rank == TruncRank(r, Cols(U))
    IN  IF ~(r >= 1)
        THEN Raise("truncatedSVD", "UnboundLocalError")
        ELSE Return("truncatedSVD",
                    [U_r |-> TakeCols(U, [j \in 1..rank |-> j]),
                     S_r |-> Prefix(SvdS2(X, p), rank),
                     V_r |-> TakeCols(SvdVS(X, p, sg), [j \in 1..rank |-> j])])

\* the arguments drawn: the batches of the constructors, and r = -1 or an
\* integer r >= 1 below, at and above the number of singular values
SvdMatrices == {b.X : b \in InitBatches} \cup {b.Y : b \in InitBatches}
RChoices == {-1, 1, 2, 3, 4}

InitSVD ==
    \E X \in SvdMatrices, r \in RChoices :
    \E px \in SvdOrders(X), sg \in SvdSigns(X) :
        /\ RowOrthogonal(X)
        /\ call = [X |-> X, r |-> r, p |-> px, sg |-> sg]
        /\ ret = [op |-> "truncatedSVD", kind |-> "running", value |-> <<>>]
        /\ rmin = 1 /\ rmax = 1 /\ thres = [num |-> 1, den |-> 5] /\ rho = RhoOf(<<>>)
        /\ Ux = None /\ Uy = None /\ Q = None /\ Pinvx = None /\ Pinvy = None
        /\ sden = 1 /\ nupd = 0 /\ hist = <<>> /\ stats0 = <<>>
        /\ cfg = <<>> /\ heap = <<>> /\ pc = "svd" /\ ph = <<>> /\ stream = <<>>

truncatedSVD_call ==
    /\ pc = "svd"
    /\ ret' = truncatedSVD_result(call.X, call.r, call.p, call.sg)
    /\ pc' = "idle"
    /\ UNCHANGED <<coreVars, cfg, heap, ph, call, nupd, hist, stats0, stream>>

NextSVD == truncatedSVD_call

SpecSVD == InitSVD /\ [][NextSVD]_vars

----------------------------------------------------------------------------
(* The plain adapter sDMD: sDMD(X, rmin, rmax, Y=None, f, s)                *)

\* X[:, a:b] with 0 <= a <= b <= columns
ColSlice(X, a, b) == [i \in 1..Rows(X) |-> SubSeq(X[i], a + 1, b)]
\* X[:, -k:] for k >= 1: the last k columns, all of them when there are fewer
LastCols(X, k) ==
    ColSlice(X, IF k <= Cols(X) THEN Cols(X) - k ELSE 0, Cols(X))
\* hankel_transform(X, s), lines 44-56: block i of the output holds the
\* columns m-i-w .. m-i-1 of X
hankel_transform(X, s) ==
    IF s = 1 THEN X
    ELSE LET l == Rows(X)
             m == Cols(X)
             w == m - (s - 1)
         IN  [k \in 1..(l * s) |->
                 ColSlice(X, m - ((k - 1) \div l) - w, m - ((k - 1) \div l))
                     [((k - 1) % l) + 1]]
\* X_hank[:, -1], which update keeps as x_buff
LastColumn(M) == Col(M, Cols(M))
\* xnew = X_hank[:, 0]
FirstColumn(M) == Col(M, 1)

\* the raw batches X (one channel) with s and f; the lag-stacked training
\* batch has orthogonal rows in each
PlainBatches ==
    { [X |-> <<<<1, 2, 4, 8>>>>,     s |-> 1, f |-> 1],
      [X |-> <<<<1, 2, 4, 8, 16>>>>, s |-> 1, f |-> 2],
      [X |-> <<<<1, 0, 2, 0>>>>,     s |-> 2, f |-> 1],
      [X |-> <<<<1, 0, 2, 0, 4>>>>,  s |-> 2, f |-> 2] }
\* x_in: two samples, and one of the wrong length
PlainX == {<<0>>, <<3>>, <<1, 1>>}
\* y_in: None, a sample of its own, or one of the wrong length
PlainY == {None, <<5>>, <<5, 5>>}

\* sDMD.__init__, lines 220-232, with Y = None
InitP ==
    \E b \in PlainBatches, rr \in RankPairs, th \in ThresChoices :
    \E X_hank \in {ColSlice(hankel_transform(b.X, b.s), 0,
                            Cols(hankel_transform(b.X, b.s)) - b.f)} :
    \E Y_init \in {ColSlice(b.X, b.f + b.s - 1, Cols(b.X))} :
    \E px \in SvdOrders(X_hank), py \in SvdOrders(Y_init) :
    \E sgx \in SvdSigns(X_hank), sgy \in SvdSigns(Y_init) :
        /\ Cols(b.X) >= b.s + b.f
        /\ BaseInit(X_hank, Y_init, rr, th, RhoOf(<<>>), px, sgx, py, sgy)
        /\ cfg = [s |-> b.s, f |-> b.f]
        /\ heap = [rolling_x |-> LastCols(b.X, b.s + b.f - 1), x_buff |-> None]
        /\ pc = "idle"
        /\ ph = <<>>
        /\ stream = Transpose(b.X)

\* sDMD_base.update fails at line 120 (self.Ux.T @ x) or line 121
\* (self.Uy.T @ y) on a vector of the wrong length, before any assignment to
\* self
BaseUpdateFails(x, y) ==
    /\ Len(x) # Rows(Ux) \/ Len(y) # Rows(Uy)
    /\ ret' = Raise("update", "ValueError")
    /\ UNCHANGED <<coreVars, call, nupd, hist, stats0>>

\* sDMD.update, lines 234-251
sDMD_update(x_in, y_in) ==
    /\ pc = "idle"
    /\ ph' = [x_in |-> x_in, y_in |-> y_in]
    /\ UNCHANGED <<cfg, pc>>
    /\ IF Len(x_in) # Rows(heap.rolling_x)
       THEN \* np.hstack([self.rolling_x, x_in]) fails, line 240
            /\ ret' = Raise("update", "ValueError")
            /\ UNCHANGED <<coreVars, call, nupd, hist, stats0, heap, stream>>
       ELSE \E y \in {IF y_in = None THEN x_in ELSE y_in} :
            \E rolling \in {HStack(heap.rolling_x, ColVec(x_in))} :
            \E X_hank \in {hankel_transform(rolling, cfg.s)} :
            \E xnew \in {FirstColumn(X_hank)} :
                /\ stream' = Append(stream, x_in)
                /\ IF Len(xnew) # Rows(Ux) \/ Len(y) # Rows(Uy)
                   THEN \* super().update raises; line 250 is not reached
                        /\ Cols(heap.rolling_x) < cfg.s + cfg.f - 1 + MaxFailed
                        /\ BaseUpdateFails(xnew, y)
                        /\ heap' = [rolling_x |-> rolling,
                                    x_buff |-> LastColumn(X_hank)]
                   ELSE /\ BaseUpdate(xnew, y)
                        /\ heap' = [rolling_x |-> ColSlice(rolling, 1, Cols(rolling)),
                                    x_buff |-> LastColumn(X_hank)]

NextP == \E x_in \in PlainX, y_in \in PlainY : sDMD_update(x_in, y_in)

SpecP == InitP /\ [][NextP]_vars

----------------------------------------------------------------------------
(* Properties of the streaming core *)

\* the normalized residual of v against the basis U, compared with thres
ResidualAbove(U, v) ==
    /\ Norm2(v) # 0
    /\ thres.den * thres.den * Norm2(Residual(U, v))
          > thres.num * thres.num * Norm2(v)
ResidualAtMost(U, v) ==
    /\ Norm2(v) # 0
    /\ thres.den * thres.den * Norm2(Residual(U, v))
          <= thres.num * thres.num * Norm2(v)
\* the number of singular values of a batch
Available(X) == Min(Rows(X), Cols(X))
Changed == \E i \in 1..Len(hist) : hist[i].x_status # NONE \/ hist[i].y_status # NONE

\* C1 as stated: after any completed update the widths of Ux and of Uy lie
\* in [rmin, rmax], whatever the shape of the initial batch.
C1_WidthInRange ==
    nupd >= 1 =>
        /\ rmin <= Cols(Ux) /\ Cols(Ux) <= rmax
        /\ rmin <= Cols(Uy) /\ Cols(Uy) <= rmax

\* C1 amended: after any completed update the width of each basis is at most
\* rmax and at least min(rmin, number of singular values of its initial
\* batch), hence within [rmin, rmax] when the batch has at least rmin rows
\* and rmin columns.
C1_WidthBounds ==
    nupd >= 1 =>
        /\ Min(rmin, Available(stats0.X)) <= Cols(Ux) /\ Cols(Ux) <= rmax
        /\ Min(rmin, Available(stats0.Y)) <= Cols(Uy) /\ Cols(Uy) <= rmax
        /\ (Available(stats0.X) >= rmin => rmin <= Cols(Ux))
        /\ (Available(stats0.Y) >= rmin => rmin <= Cols(Uy))

\* a reduction brought Ux back to rmin columns, from a batch with fewer than
\* rmin singular values
C1_Witness ==
    /\ nupd >= 2
    /\ Available(stats0.X) < rmin
    /\ ret.value[1] = REDUCTION
    /\ Cols(Ux) = rmin

\* C2: on each side, a residual above thres widens the basis by exactly one
\* column with status AUGMENTATION, unless that exceeds rmax: then the width
\* after the call is rmin and the status is REDUCTION.
C2_ForcedResidual ==
    nupd >= 1 =>
        /\ ResidualAbove(call.Ux, call.x) =>
              IF Cols(call.Ux) + 1 > rmax
              THEN Cols(Ux) = rmin /\ ret.value[1] = REDUCTION
              ELSE Cols(Ux) = Cols(call.Ux) + 1 /\ ret.value[1] = AUGMENTATION
        /\ ResidualAbove(call.Uy, call.y) =>
              IF Cols(call.Uy) + 1 > rmax
              THEN Cols(Uy) = rmin /\ ret.value[2] = REDUCTION
              ELSE Cols(Uy) = Cols(call.Uy) + 1 /\ ret.value[2] = AUGMENTATION

\* one call in which x was augmented past rmax and reduced to rmin < rmax
\* while y was augmented
C2_Witness ==
    /\ nupd >= 1
    /\ ResidualAbove(call.Ux, call.x) /\ ResidualAbove(call.Uy, call.y)
    /\ ret.value = <<REDUCTION, AUGMENTATION>>
    /\ rmin < rmax /\ Cols(Ux) = rmin

\* C3: on each side, a residual of at most thres gives status NONE and leaves
\* the width of that side's basis as it was, whatever the other side does.
C3_SmallResidual ==
    nupd >= 1 =>
        /\ ResidualAtMost(call.Ux, call.x) =>
              ret.value[1] = NONE /\ Cols(Ux) = Cols(call.Ux)
        /\ ResidualAtMost(call.Uy, call.y) =>
              ret.value[2] = NONE /\ Cols(Uy) = Cols(call.Uy)

\* y stays put at width rmax with a non-zero residual below thres while x is
\* reduced in the same call
C3_Witness ==
    /\ nupd >= 1
    /\ ResidualAtMost(call.Uy, call.y) /\ Norm2(Residual(call.Uy, call.y)) # 0
    /\ Cols(call.Uy) = rmax
    /\ ret.value = <<REDUCTION, NONE>>

\* C4: in every reachable state Q is (columns of Uy) x (columns of Ux), Pinvx
\* is square of size columns of Ux and Pinvy square of size columns of Uy.
IsShape(M, r, c) == Len(M) = r /\ \A i \in 1..Len(M) : Len(M[i]) = c
C4_Shapes ==
    /\ IsShape(Q, Cols(Uy), Cols(Ux))
    /\ IsShape(Pinvx, Cols(Ux), Cols(Ux))
    /\ IsShape(Pinvy, Cols(Uy), Cols(Uy))

\* both sides changed structure in one call, and the widths differ
C4_Witness ==
    /\ nupd >= 2
    /\ ret.value = <<REDUCTION, AUGMENTATION>>
    /\ Cols(Ux) # Cols(Uy)
    /\ \E i \in 1..Len(hist) : hist[i].x_status = AUGMENTATION

\* the non-streaming accumulation over the samples s, taken in the order p
RECURSIVE BatchSum(_, _, _, _)
BatchSum(M0, s, p, k) ==
    IF k = 0 THEN M0
    ELSE LET xt == TMatVec(Ux, s[p[k]].x)
             yt == TMatVec(Uy, s[p[k]].y)
         IN  BatchSum([Q |-> MatAdd(M0.Q, Outer(yt, xt)),
                       Pinvx |-> MatAdd(M0.Pinvx, Outer(xt, xt)),
                       Pinvy |-> MatAdd(M0.Pinvy, Outer(yt, yt))], s, p, k - 1)

\* C10: with rho = 1 and no augmentation or reduction, after N updates the
\* statistics are the initial ones plus the sums of the outer products of the
\* N reduced samples, in whatever order the samples are summed.
C10_BatchEquivalence ==
    (rho = [num |-> 1, den |-> 1] /\ ~Changed) =>
        /\ sden = 1
        /\ \A p \in Perms(Len(hist)) :
              BatchSum([Q |-> stats0.Q, Pinvx |-> stats0.Pinvx, Pinvy |-> stats0.Pinvy],
                       hist, p, Len(hist))
                = [Q |-> Q, Pinvx |-> Pinvx, Pinvy |-> Pinvy]

\* two different non-zero samples were accumulated on fixed bases of width 2
C10_Witness ==
    /\ rho = [num |-> 1, den |-> 1] /\ ~Changed
    /\ nupd >= 2
    /\ hist[1].x # hist[2].x
    /\ Cols(Ux) = 2
    /\ Q # stats0.Q /\ Pinvx # stats0.Pinvx /\ Pinvy # stats0.Pinvy
    /\ ~IsDiagonal(Pinvx)

----------------------------------------------------------------------------
(* Properties of the sDMDc predictors *)

HorizonDone == pc = "idle" /\ ret.op = "predict_horizon"
HorizonReturned == HorizonDone /\ ret.kind = "return"
XHistValid == ph.x_hist.nrows = cfg.nx /\ Len(ph.x_hist.cols) >= cfg.s + cfg.f - 1
UFutureValid == ph.u_future.nrows = cfg.nu /\ Len(ph.u_future.cols) >= ph.steps + cfg.f - 1

\* C5: a predict_horizon call whose x_hist has nx rows and at least s+f-1
\* columns and whose u_future has nu rows and at least steps+f-1 columns
\* completes by returning a trajectory; any other call fails with a
\* ValueError before a buffer is built or a prediction computed.
C5_ValidCallsComplete ==
    HorizonDone =>
        IF XHistValid /\ UFutureValid
        THEN ret.kind = "return"
        ELSE /\ ret.kind = "raise" /\ ret.value = "ValueError"
             /\ ph.all = <<>>
             /\ \A n \in LocalNames : heap[n] = None

RECURSIVE Pow(_, _)
Pow(b, k) == IF k = 0 THEN 1 ELSE b * Pow(b, k - 1)
\* the learned operator maps [x; u] to F x (nx = nu = 1): the image of the
\* unit state is F and the image of the unit control is 0
LearnedF == PredictNext(Q, Pinvx, Ux, Uy, 1, Vec(<<1, 0>>)).value.v[1]
MapsToFx == PredictNext(Q, Pinvx, Ux, Uy, 1, Vec(<<0, 1>>)).value = Vec(<<0>>)

\* C6: with s = 1, f = 1 and a learned operator [x; u] -> F x, column k-1
\* of the trajectory returned by predict_horizon is F^k x_0, where x_0 is the
\* last column of x_hist.
C6_Rollout ==
    (HorizonReturned /\ cfg.s = 1 /\ cfg.f = 1 /\ cfg.nx = 1 /\ cfg.nu = 1 /\ MapsToFx) =>
        LET x_0 == ph.x_hist.cols[Len(ph.x_hist.cols)].v[1]
        IN  \A k \in 1..Len(ret.value) :
                ret.value[k] = Vec(<<Pow(LearnedF, k) * x_0>>)

NaNSteps == {j \in 1..Len(ph.all) : ph.all[j].nan}
\* C7: when the first nan prediction is the one of iteration j (0-based), the
\* returned matrix has exactly the j predictions before it as its columns and
\* iteration j is the last one executed; without a nan prediction the matrix
\* has steps columns.
C7_NaNPrefix ==
    HorizonReturned =>
        IF NaNSteps = {}
        THEN Len(ret.value) = ph.steps /\ ret.value = ph.all
        ELSE \E j \in NaNSteps :
                /\ \A l \in NaNSteps : j <= l
                /\ Len(ph.all) = j
                /\ ret.value = SubSeq(ph.all, 1, j - 1)
C7_Witness ==
    /\ HorizonReturned
    /\ Len(ph.all) = 2 /\ ph.all[2].nan /\ ~ph.all[1].nan
    /\ Len(ret.value) = 1 /\ ph.steps = 2

\* C8: predict_next_raw_state_from_augmented never raises; with a missing
\* operator input or an augmented input of the wrong length it returns the
\* all-nan vector of length nx.
C8_NeverRaises ==
    ret.op = "predict_next" =>
        /\ ret.kind = "return"
        /\ (Q = None \/ Pinvx = None \/ Ux = None \/ Uy = None) => ret.value = NaNVec(cfg.nx)

\* C9: a step of a read-only operation (any step that is not an update)
\* leaves Ux, Uy, Q, Pinvx, Pinvy and the contents of the three live buffers
\* as they were.
C9_ReadOnly ==
    [][nupd' = nupd =>
          /\ <<Ux, Uy, Q, Pinvx, Pinvy, sden>>' = <<Ux, Uy, Q, Pinvx, Pinvy, sden>>
          /\ Live(heap') = Live(heap)]_vars
C9_Witness ==
    /\ HorizonReturned
    /\ nupd >= 1
    /\ Len(ret.value) >= 1

----------------------------------------------------------------------------
(* Properties of truncatedSVD *)

\* C11: truncatedSVD(X, r) returns factors U_r, S_r, V_r with the same
\* number k of columns/entries, k = min(r, number of singular values) for an
\* integer r >= 1 and k = number of singular values for r = -1.
C11_ReturnsRank ==
    (pc = "idle" /\ ret.op = "truncatedSVD") =>
        /\ ret.kind = "return"
        /\ LET k == IF call.r >= 1 THEN Min(call.r, Available(call.X))
                    ELSE Available(call.X)
           IN  /\ Cols(ret.value.U_r) = k
               /\ Len(ret.value.S_r) = k
               /\ Cols(ret.value.V_r) = k

----------------------------------------------------------------------------
(* Properties of the plain adapter *)

\* the lag-stack of s samples of q ending at index newest, newest first
RECURSIVE LagStack(_, _, _)
LagStack(q, newest, s) ==
    IF s = 0 THEN <<>> ELSE q[newest] \o LagStack(q, newest - 1, s - 1)

\* C12: between updates rolling_x holds the s+f-1 most recent raw samples in
\* arrival order; the update that receives the sample of time t passes to
\* the core x = the lag-stack of the samples t-f, ..., t-f-s+1 (newest in
\* the first block) and y = the sample of time t; the training pairs of the
\* constructor have the same offset f between x's newest block and y.
C12_Window ==
    LET t == Len(stream)
    IN  /\ heap.rolling_x = Transpose(LastK(stream, cfg.s + cfg.f - 1))
        /\ (ret.op = "update" /\ ret.kind = "return") =>
              /\ call.x = LagStack(stream, t - cfg.f, cfg.s)
              /\ ph.y_in = None => call.y = stream[t]
        /\ \A j \in 1..Cols(stats0.X) :
              /\ Col(stats0.X, j) = LagStack(stream, j + cfg.s - 1, cfg.s)
              /\ Col(stats0.Y, j) = stream[j + cfg.s - 1 + cfg.f]

\* C13: an update that fails on a vector of mismatched length leaves the
\* bases, the statistics and the rolling buffer as they were before the call.
C13_FailedUpdateNoEffect ==
    [][(ret'.op = "update" /\ ret'.kind = "raise") =>
          /\ <<Ux, Uy, Q, Pinvx, Pinvy, sden>>' = <<Ux, Uy, Q, Pinvx, Pinvy, sden>>
          /\ heap'.rolling_x = heap.rolling_x]_vars

----------------------------------------------------------------------------
(* The order of the steps inside sDMD_base.update *)

\* row k and column k of the square matrix P are zero
ZeroCross(P, k) == \A i \in 1..Rows(P) : P[k][i] = 0 /\ P[i][k] = 0

\* C14: when a side is compressed in the call that augmented it, the row and
\* column of its moment matrix and the column (x) or row (y) of Q of the new
\* direction are still zero when compression starts; the sample is added to
\* Q, Pinvx, Pinvy once, in the coordinates of the bases left by compression.
C14_StepOrder ==
    nupd >= 1 =>
        LET cx == call.steps.compress_x
            cy == call.steps.compress_y
            rg == call.steps.regress
            xtilde == TMatVec(Ux, call.x)
            ytilde == TMatVec(Uy, call.y)
        IN  /\ (cx.x_status = AUGMENTATION /\ Cols(cx.Ux) > rmax) =>
                  /\ ZeroCross(cx.Pinvx, Cols(cx.Ux))
                  /\ \A i \in 1..Rows(cx.Q) : cx.Q[i][Cols(cx.Ux)] = 0
            /\ (cy.y_status = AUGMENTATION /\ Cols(cy.Uy) > rmax) =>
                  /\ ZeroCross(cy.Pinvy, Cols(cy.Uy))
                  /\ \A j \in 1..Cols(cy.Q) : cy.Q[Cols(cy.Uy)][j] = 0
            /\ rg.Ux = Ux /\ rg.Uy = Uy
            /\ Q = MatAdd(MatScale(rho.num, rg.Q), MatScale(sden, Outer(ytilde, xtilde)))
            /\ Pinvx = MatAdd(MatScale(rho.num, rg.Pinvx), MatScale(sden, Outer(xtilde, xtilde)))
            /\ Pinvy = MatAdd(MatScale(rho.num, rg.Pinvy), MatScale(sden, Outer(ytilde, ytilde)))
\* both sides were augmented and compressed in one call, with forgetting,
\* and the sample left a non-zero term in Pinvy
C14_Witness ==
    /\ nupd >= 1
    /\ call.steps.compress_x.x_status = AUGMENTATION
    /\ call.steps.compress_y.y_status = AUGMENTATION
    /\ ret.value = <<REDUCTION, REDUCTION>>
    /\ rho.den = 2
    /\ Pinvy # MatScale(rho.num, call.steps.regress.Pinvy)

============================================================================
